---------------------------- MODULE Spec2Model ----------------------------
(***************************************************************************)
(* A model of cargo's resolved dependency graph (`Resolve`,                *)
(* src/cargo/core/resolver/resolve.rs): its construction, the three        *)
(* mutations register_used_patches / set_version / merge_from, and its     *)
(* queries; the artifact environment projection (`set_env`,                *)
(* src/cargo/core/compiler/artifact.rs); and the metadata export's walk of *)
(* a Resolve (src/cargo/ops/cargo_output_metadata.rs).                     *)
(*                                                                         *)
(* Strings that the code transforms (dependency names, target names) are   *)
(* sequences of one-character strings, so that `replace("-", "_")` is a    *)
(* real transformation.  Option<T> is a sequence of length 0 (None) or 1   *)
(* (Some).  A HashMap / HashSet iteration order is an arbitrary            *)
(* enumeration of the keys / elements, chosen by the caller of each        *)
(* operator.                                                               *)
(***************************************************************************)
EXTENDS Integers, Sequences, FiniteSets, TLC

VARIABLES
    resolve,    \* the Resolve the operations act on (`self`)
    previous,   \* the previously persisted Resolve handed to merge_from
    ret,        \* the last call: its name, its arguments and what it returned
    cx,         \* set_env's inputs: the unit's dependencies and their outputs
    cmd,        \* the environment of the command set_env adjusts
    ws,         \* the metadata export's inputs: workspace members, package map
    walk        \* the metadata export's walk: node_map and the pending calls

vars == <<resolve, previous, ret, cx, cmd, ws, walk>>

---------------------------------------------------------------------------
(* Bounds of the model *)

\* largest number of Dependency values in one edge set
MaxDeps == 2
\* largest number of edges of a graph drawn at construction
MaxEdges == 2
\* largest number of entries of a replacements table drawn at construction
MaxRepl == 2
\* largest number of summaries handed to one register_used_patches call
MaxPatches == 2
\* cap on the length of unused_patches (the code's vector is unbounded)
MaxUnused == 2
\* largest number of unit dependencies handed to one set_env call
MaxUnitDeps == 2

---------------------------------------------------------------------------
(* Values *)

None == <<>>
Some(v) == <<v>>
IsSome(o) == Len(o) = 1
Unwrap(o) == o[1]

\* PackageIds: totally ordered, here by the integer
Pkgs == {1, 2, 3}

\* the packages callers ask about: those a graph can hold and one that no
\* graph holds
QueryPkgs == Pkgs \cup {4}

\* the packages [patch] entries offer
PatchPkgs == {2, 3, 4}

\* the packages that appear in checksum tables
CkPkgs == {1, 2}

Versions == {"V1", "V2", "V3"}

Metadatas == {"meta_a", "meta_b"}

Checksums == {None, Some("x"), Some("y")}

NameDashed == <<"a", "-", "b">>
NameUnderscored == <<"a", "_", "b">>
NameOther == <<"c">>

\* explicit_name_in_toml of a Dependency
DepNames == {None, Some(NameDashed), Some(NameUnderscored), Some(NameOther)}

\* A Dependency is a record of the fields the code reads: kind, public and
\* name (its explicit_name_in_toml).

\* str::replace for a one-character pattern
StrReplace(s, from, to) == [i \in 1..Len(s) |-> IF s[i] = from THEN to ELSE s[i]]

\* every order in which the elements of S can be iterated
Orders(S) == {f \in [1..Cardinality(S) -> S] : \A x \in S : \E i \in DOMAIN f : f[i] = x}

\* partial maps from a subset of K to V
PartialMaps(K, V) == UNION {[D -> V] : D \in SUBSET K}

Range(f) == {f[x] : x \in DOMAIN f}

---------------------------------------------------------------------------
(* util::Graph<PackageId, HashSet<Dependency>>: a map from each node to    *)
(* the map from its children to the edge value                             *)

GraphContains(g, k) == k \in DOMAIN g

GraphIter(g) == DOMAIN g

\* the children of `from` that have an edge (none when `from` is no node)
GraphEdges(g, from) == IF from \in DOMAIN g THEN DOMAIN g[from] ELSE {}

\* Option<&E>
GraphEdge(g, from, to) ==
    IF from \in DOMAIN g /\ to \in DOMAIN g[from] THEN Some(g[from][to]) ELSE None

---------------------------------------------------------------------------
(* Resolve::new *)

ReverseReplacementsNotInverted(replacements, order) == replacements

\* replacements.iter().map(|(&p, &r)| (r, p)).collect(): the pairs are
\* inserted in the map's iteration order, a later insert of the same key
\* overwriting the earlier one
ReverseReplacements(replacements, order) ==
    [r \in Range(replacements) |->
        LET last == CHOOSE i \in DOMAIN order :
                        /\ replacements[order[i]] = r
                        /\ \A j \in DOMAIN order : replacements[order[j]] = r => j <= i
        IN order[last]]

PublicDependenciesIgnoringKind(graph) ==
    [p \in GraphIter(graph) |->
        {q \in GraphEdges(graph, p) : \E d \in graph[p][q] : d.public}]

PublicDependencies(graph) ==
    [p \in GraphIter(graph) |->
        {q \in GraphEdges(graph, p) :
            \E d \in graph[p][q] : d.kind = "Normal" /\ d.public}]

\* `order` is the iteration order of `replacements`
ResolveNew(graph, replacements, features, checksums, metadata, unused_patches, version, summaries, order) ==
    [graph                |-> graph,
     replacements         |-> replacements,
     features             |-> features,
     checksums            |-> checksums,
     metadata             |-> metadata,
     unused_patches       |-> unused_patches,
     reverse_replacements |-> ReverseReplacements(replacements, order),
     public_dependencies  |-> PublicDependencies(graph),
     version              |-> version,
     summaries            |-> summaries]

---------------------------------------------------------------------------
(* Resolve::merge_from *)

ErrNotPreviouslyCalculated == "checksum was not previously calculated, but a checksum could now be calculated"
ErrCouldNotBeCalculated == "checksum could not be calculated, but a checksum is listed in the existing lock file"
ErrChanged == "checksum changed between lock files"

Ok(v) == [kind |-> "Ok", val |-> v]
Err(msg, ids) == [kind |-> "Err", msg |-> msg, ids |-> ids]

\* one iteration of the loop over previous.checksums: None to go on, or the
\* error the iteration bails with
ChecksumAuditStepTolerant(self, prev, id) ==
    IF id \in DOMAIN self.checksums
    THEN LET mine == self.checksums[id]
             cksum == prev.checksums[id]
         IN IF mine = cksum THEN None
            ELSE IF cksum = None THEN Some(Err(ErrNotPreviouslyCalculated, <<id>>))
            ELSE IF mine = None THEN Some(Err(ErrCouldNotBeCalculated, <<id>>))
            ELSE None
    ELSE None

ChecksumAuditStepIgnoresAppearance(self, prev, id) ==
    IF id \in DOMAIN self.checksums
    THEN LET mine == self.checksums[id]
             cksum == prev.checksums[id]
         IN IF mine = cksum \/ cksum = None THEN None
            ELSE IF mine = None THEN Some(Err(ErrCouldNotBeCalculated, <<id>>))
            ELSE Some(Err(ErrChanged, <<id>>))
    ELSE None

ChecksumAuditStepIgnoresDisappearance(self, prev, id) ==
    IF id \in DOMAIN self.checksums
    THEN LET mine == self.checksums[id]
             cksum == prev.checksums[id]
         IN IF mine = cksum \/ mine = None THEN None
            ELSE IF cksum = None THEN Some(Err(ErrNotPreviouslyCalculated, <<id>>))
            ELSE Some(Err(ErrChanged, <<id>>))
    ELSE None

ChecksumAuditStepNoneNeverEqual(self, prev, id) ==
    IF id \in DOMAIN self.checksums
    THEN LET mine == self.checksums[id]
             cksum == prev.checksums[id]
         IN IF mine = cksum /\ IsSome(mine) THEN None
            ELSE IF cksum = None THEN Some(Err(ErrNotPreviouslyCalculated, <<id>>))
            ELSE IF mine = None THEN Some(Err(ErrCouldNotBeCalculated, <<id>>))
            ELSE Some(Err(ErrChanged, <<id>>))
    ELSE None

ChecksumAuditStepDroppedFails(self, prev, id) ==
    LET mine == IF id \in DOMAIN self.checksums THEN self.checksums[id] ELSE None
        cksum == prev.checksums[id]
    IN IF mine = cksum THEN None
       ELSE IF cksum = None THEN Some(Err(ErrNotPreviouslyCalculated, <<id>>))
       ELSE IF mine = None THEN Some(Err(ErrCouldNotBeCalculated, <<id>>))
       ELSE Some(Err(ErrChanged, <<id>>))

ChecksumAuditStep(self, prev, id) ==
    IF id \in DOMAIN self.checksums
    THEN LET mine == self.checksums[id]
             cksum == prev.checksums[id]
         IN IF mine = cksum THEN None
            ELSE IF cksum = None THEN Some(Err(ErrNotPreviouslyCalculated, <<id>>))
            ELSE IF mine = None THEN Some(Err(ErrCouldNotBeCalculated, <<id>>))
            ELSE Some(Err(ErrChanged, <<id>>))
    ELSE None

\* the loop, over previous.checksums in the iteration order `order`, from
\* position i: the first error, or None when the audit passes
RECURSIVE ChecksumAudit(_, _, _, _)
ChecksumAudit(self, prev, order, i) ==
    IF i > Len(order) THEN None
    ELSE LET step == ChecksumAuditStep(self, prev, order[i])
         IN IF IsSome(step) THEN step ELSE ChecksumAudit(self, prev, order, i + 1)

\* the fields copied from `previous` once the audit has passed
MergeCopyMetadataOnly(self, prev) ==
    [self EXCEPT !.metadata = prev.metadata]

MergeCopyWholesale(self, prev) ==
    [prev EXCEPT !.unused_patches = self.unused_patches]

MergeCopy(self, prev) ==
    [self EXCEPT !.metadata = prev.metadata, !.version = prev.version]

MergeFromResultCopyFirst(self, prev, order) ==
    LET audit == ChecksumAudit(self, prev, order, 1)
    IN [self |-> MergeCopy(self, prev),
        out |-> IF IsSome(audit) THEN Unwrap(audit) ELSE Ok("unit")]

\* merge_from(&mut self, previous): self afterwards and the result
MergeFromResult(self, prev, order) ==
    LET audit == ChecksumAudit(self, prev, order, 1)
    IN IF IsSome(audit)
       THEN [self |-> self, out |-> Unwrap(audit)]
       ELSE [self |-> MergeCopy(self, prev), out |-> Ok("unit")]

---------------------------------------------------------------------------
(* Resolve::set_version, Resolve::register_used_patches *)

SetVersionResult(self, version) == [self EXCEPT !.version = version]

ResolveEqDerived(self, other) == self = other

\* impl PartialEq for Resolve: the fields the macro compares
ResolveEq(self, other) ==
    /\ self.graph = other.graph
    /\ self.replacements = other.replacements
    /\ self.reverse_replacements = other.reverse_replacements
    /\ self.features = other.features
    /\ self.checksums = other.checksums
    /\ self.metadata = other.metadata
    /\ self.unused_patches = other.unused_patches
    /\ self.public_dependencies = other.public_dependencies
    /\ self.summaries = other.summaries

RegisterUsedPatchesFromEvery(self, patches, i) ==
    [self EXCEPT !.unused_patches = @ \o SubSeq(patches, i, Len(patches))]

\* the loop over `patches` from position i; a Summary is its package_id
RECURSIVE RegisterUsedPatchesFrom(_, _, _)
RegisterUsedPatchesFrom(self, patches, i) ==
    IF i > Len(patches) THEN self
    ELSE IF ~GraphContains(self.graph, patches[i])
         THEN RegisterUsedPatchesFrom(
                  [self EXCEPT !.unused_patches = Append(@, patches[i])], patches, i + 1)
         ELSE RegisterUsedPatchesFrom(self, patches, i + 1)

RegisterUsedPatchesResult(self, patches) == RegisterUsedPatchesFrom(self, patches, 1)

---------------------------------------------------------------------------
(* Resolve::dependencies_listed, Resolve::extern_crate_name_and_dep_name   *)

Panic(msg) == [kind |-> "Panic", msg |-> msg]

ErrDifferentNames == "depends on crate multiple times with different names"

\* Target::crate_name: the target's name with '-' replaced by '_'
CrateName(target) == StrReplace(target.name, "-", "_")

DependenciesListedDirectFirst(self, from, to) ==
    LET replace == IF to \in DOMAIN self.reverse_replacements
                   THEN Some(self.reverse_replacements[to]) ELSE None
        viaReplace == IF IsSome(replace)
                      THEN GraphEdge(self.graph, from, Unwrap(replace)) ELSE None
        direct == GraphEdge(self.graph, from, to)
    IN IF IsSome(direct) THEN Ok(Unwrap(direct))
       ELSE IF IsSome(viaReplace) THEN Ok(Unwrap(viaReplace))
       ELSE Panic("no Dependency listed")

\* Ok(the edge set), or the panic of the final match
DependenciesListed(self, from, to) ==
    LET replace == IF to \in DOMAIN self.reverse_replacements
                   THEN Some(self.reverse_replacements[to]) ELSE None
        viaReplace == IF IsSome(replace)
                      THEN GraphEdge(self.graph, from, Unwrap(replace)) ELSE None
        direct == GraphEdge(self.graph, from, to)
    IN IF IsSome(viaReplace) THEN Ok(Unwrap(viaReplace))
       ELSE IF IsSome(direct) THEN Ok(Unwrap(direct))
       ELSE Panic("no Dependency listed")

NameOfDepAsWritten(d, crate_name) ==
    IF IsSome(d.name) THEN Unwrap(d.name) ELSE crate_name

\* the closure of line 312: the name one Dependency gives the crate
NameOfDep(d, crate_name) ==
    IF IsSome(d.name) THEN StrReplace(Unwrap(d.name), "-", "_") ELSE crate_name

\* lines 311-327 on the edge set `deps` iterated in the order `order`
NamesOf(order, crate_name) == [i \in DOMAIN order |-> NameOfDep(order[i], crate_name)]

FirstExplicitName(order) ==
    LET explicit == {i \in DOMAIN order : IsSome(order[i].name)}
    IN IF explicit = {} THEN None
       ELSE order[CHOOSE i \in explicit : \A j \in explicit : i <= j].name

ExternNameOfEdgesFirstWins(order, from, to, crate_name) ==
    LET names == NamesOf(order, crate_name)
        name == IF Len(names) = 0 THEN crate_name ELSE names[1]
    IN Ok(<<name, FirstExplicitName(order)>>)

ExternNameOfEdgesRenamesOnly(order, from, to, crate_name) ==
    LET renamed == SelectSeq(order, LAMBDA d : IsSome(d.name))
        names == NamesOf(renamed, crate_name)
        name == IF Len(names) = 0 THEN crate_name ELSE names[1]
    IN IF \E i \in 2..Len(names) : names[i] # name
       THEN Err(ErrDifferentNames, <<from, to>>)
       ELSE Ok(<<name, FirstExplicitName(order)>>)

ExternNameOfEdges(order, from, to, crate_name) ==
    LET names == NamesOf(order, crate_name)
        name == IF Len(names) = 0 THEN crate_name ELSE names[1]
    IN IF \E i \in 2..Len(names) : names[i] # name
       THEN Err(ErrDifferentNames, <<from, to>>)
       ELSE Ok(<<name, FirstExplicitName(order)>>)

\* the edge set the naming runs on: empty for from = to (Ok), else the one
\* dependencies_listed returns (or its panic)
EdgesToNameAlwaysListed(self, from, to) == DependenciesListed(self, from, to)

EdgesToName(self, from, to) ==
    IF from = to THEN Ok({}) ELSE DependenciesListed(self, from, to)

\* every outcome of extern_crate_name_and_dep_name(from, to, to_target), one
\* for each iteration order of the edge set
ExternCrateNameAndDepName(self, from, to, to_target) ==
    LET deps == EdgesToName(self, from, to)
    IN IF deps.kind = "Panic" THEN {deps}
       ELSE {ExternNameOfEdges(order, from, to, CrateName(to_target)) :
                order \in Orders(deps.val)}

---------------------------------------------------------------------------
(* Resolve::deps, Resolve::deps_not_replaced, Resolve::replacement,        *)
(* Resolve::is_public_dep                                                  *)

\* the elements of a set of PackageIds in their order
Ascending(S) ==
    CHOOSE s \in Orders(S) : \A i \in DOMAIN s, j \in DOMAIN s : i < j => s[i] < s[j]

\* util::Graph::edges as an iterator: util::Graph keeps the children of a
\* node in an ordered map, so the (child, edge) pairs come by ascending
\* child, none when `from` is no node
GraphEdgesIter(g, from) ==
    LET children == Ascending(GraphEdges(g, from))
    IN  [i \in DOMAIN children |-> <<children[i], g[from][children[i]]>>]

Replacement(self, pkg) ==
    IF pkg \in DOMAIN self.replacements THEN Some(self.replacements[pkg]) ELSE None

\* the replacement of the replacement, as long as there is one
RECURSIVE ReplacementTransitive(_, _, _)
ReplacementTransitive(self, id, fuel) ==
    IF fuel = 0 \/ ~IsSome(Replacement(self, id)) THEN id
    ELSE ReplacementTransitive(self, Unwrap(Replacement(self, id)), fuel - 1)

DepsNotReplaced(self, pkg) == GraphEdgesIter(self.graph, pkg)

DepsTransitive(self, pkg) ==
    LET raw == DepsNotReplaced(self, pkg)
    IN  [i \in DOMAIN raw |->
            <<ReplacementTransitive(self, raw[i][1], Cardinality(DOMAIN self.replacements)),
              raw[i][2]>>]

Deps(self, pkg) ==
    LET raw == DepsNotReplaced(self, pkg)
    IN  [i \in DOMAIN raw |->
            <<IF IsSome(Replacement(self, raw[i][1]))
                  THEN Unwrap(Replacement(self, raw[i][1])) ELSE raw[i][1],
              raw[i][2]>>]

IsPublicDepUnknownIsPrivate(self, pkg, dep) ==
    Ok(pkg \in DOMAIN self.public_dependencies /\ dep \in self.public_dependencies[pkg])

\* Ok(the bool), or the panic of unwrap_or_else
IsPublicDep(self, pkg, dep) ==
    IF pkg \in DOMAIN self.public_dependencies
        THEN Ok(dep \in self.public_dependencies[pkg])
    ELSE Panic("Unknown dependency for package")

---------------------------------------------------------------------------
(* Actions *)

NoCall == [op |-> "none"]

\* the variables of the operations a specification leaves out
NoContext == [dependencies |-> <<>>, outputs |-> <<>>, metadata |-> <<>>]
NoCommand == [env |-> <<>>]
NoWorkspace == [members |-> <<>>, current |-> None, package_map |-> <<>>, host_only |-> TRUE]

\* the walk before build_resolve_graph is called
NoWalk == [pc |-> "idle", node_map |-> <<>>, pending |-> <<>>, built |-> <<>>]

MergeFrom ==
    \E order \in Orders(DOMAIN previous.checksums) :
        LET r == MergeFromResult(resolve, previous, order)
        IN /\ resolve' = r.self
           /\ ret' = [op |-> "merge_from", before |-> resolve, out |-> r.out]
           /\ UNCHANGED <<previous, cx, cmd, ws, walk>>

SetVersion ==
    \E v \in Versions :
        /\ resolve' = SetVersionResult(resolve, v)
        /\ ret' = [op |-> "set_version", before |-> resolve, version |-> v]
        /\ UNCHANGED <<previous, cx, cmd, ws, walk>>

---------------------------------------------------------------------------
(* Reconciliation: a freshly computed resolution against a persisted one,  *)
(* over every pair of checksum tables.  As the resolver and the lockfile   *)
(* decoder build them, the graph's nodes are the checksum table's keys.    *)

NodesOnly(V) == [p \in V |-> [q \in {} |-> {}]]

PlainResolve(checksums, metadata, version) ==
    ResolveNew(NodesOnly(DOMAIN checksums), <<>>,
               [p \in DOMAIN checksums |-> <<>>], checksums, metadata, <<>>,
               version, [p \in DOMAIN checksums |-> p], <<>>)

InitMerge ==
    /\ \E cks \in PartialMaps(CkPkgs, Checksums), md \in Metadatas, v \in Versions :
           resolve = PlainResolve(cks, md, v)
    /\ \E cks \in PartialMaps(CkPkgs, Checksums), md \in Metadatas, v \in Versions :
           previous = PlainResolve(cks, md, v)
    /\ ret = NoCall
    /\ cx = NoContext /\ cmd = NoCommand /\ ws = NoWorkspace /\ walk = NoWalk

NextMerge == MergeFrom \/ SetVersion

SpecMerge == InitMerge /\ [][NextMerge]_vars


---------------------------------------------------------------------------
(* Graphs and replacement tables drawn at construction *)

EdgeSets(deps) == {S \in SUBSET deps : Cardinality(S) \in 1..MaxDeps}

\* the graphs with nodes V, at most MaxEdges edges among `pairs`, each edge
\* carrying one of `edgeSets`
Graphs(V, pairs, edgeSets) ==
    UNION {{[p \in V |-> [q \in {q \in V : <<p, q>> \in E} |-> lab[<<p, q>>]]] :
                lab \in [E -> edgeSets]} :
           E \in {S \in SUBSET (pairs \cap (V \X V)) : Cardinality(S) <= MaxEdges}}

\* [replace] tables: at most MaxRepl entries, no replacement of a package by
\* itself and no replacement of a replacement
Replacements(V) ==
    {r \in PartialMaps(V, V) :
        /\ Cardinality(DOMAIN r) <= MaxRepl
        /\ Range(r) \cap DOMAIN r = {}}

\* the Resolve the resolver assembles for `graph`: every node has a feature
\* list, a checksum and a summary
Constructed(graph, replacements, order, unused) ==
    ResolveNew(graph, replacements, [p \in DOMAIN graph |-> <<>>],
               [p \in DOMAIN graph |-> Some("x")], "meta_a", unused, "V3",
               [p \in DOMAIN graph |-> p], order)

---------------------------------------------------------------------------
(* The life of a Resolve: constructed, then reconciled with the persisted  *)
(* one, its version set and its unused patches registered, in any order.   *)

\* Dependency values that differ in kind and visibility
VisibilityDeps == [kind : {"Normal", "Build"}, public : BOOLEAN, name : {None}]

RegisterUsedPatches ==
    \E n \in 0..MaxPatches :
        \E patches \in [1..n -> PatchPkgs] :
            LET after == RegisterUsedPatchesResult(resolve, patches)
            IN /\ Len(after.unused_patches) <= MaxUnused
               /\ resolve' = after
               /\ ret' = [op |-> "register_used_patches", patches |-> patches]
               /\ UNCHANGED <<previous, cx, cmd, ws, walk>>

Init ==
    /\ \E V \in {{1, 2}, Pkgs} :
           \E graph \in Graphs(V, {1} \X {2, 3}, EdgeSets(VisibilityDeps)),
              replacements \in {<<>>, [p \in {1} |-> 2]} :
               \E order \in Orders(DOMAIN replacements) :
                   resolve = Constructed(graph, replacements, order, <<>>)
    /\ \E cks \in {[p \in {1} |-> Some("x")], [p \in {1} |-> Some("y")]} :
           previous = PlainResolve(cks, "meta_b", "V1")
    /\ ret = NoCall
    /\ cx = NoContext /\ cmd = NoCommand /\ ws = NoWorkspace /\ walk = NoWalk

Next == MergeFrom \/ SetVersion \/ RegisterUsedPatches

Spec == Init /\ [][Next]_vars

---------------------------------------------------------------------------
(* Queries on a constructed Resolve, over every graph whose edges leave    *)
(* package 1 and every replacement table.                                  *)

\* Dependency values that differ in their explicit name, one name in two
\* dependency categories
NamingDeps ==
    [kind : {"Normal"}, public : {FALSE}, name : DepNames]
        \cup [kind : {"Build"}, public : {FALSE}, name : {Some(NameOther)}]

\* build targets handed to the naming query
Targets == {[name |-> NameDashed], [name |-> NameOther]}

\* The queries take &self: the Resolve after a call is the Resolve before
\* it, so one call on each constructed Resolve stands for every call.
ExternCrateName ==
    /\ ret = NoCall
    /\ \E from \in QueryPkgs, to \in QueryPkgs, target \in Targets :
        \E out \in ExternCrateNameAndDepName(resolve, from, to, target) :
            /\ ret' = [op |-> "extern_crate_name_and_dep_name", from |-> from,
                       to |-> to, target |-> target, out |-> out]
            /\ UNCHANGED <<resolve, previous, cx, cmd, ws, walk>>

InitQuery ==
    /\ \E graph \in Graphs(Pkgs, {1} \X Pkgs, EdgeSets(NamingDeps)),
          replacements \in Replacements(Pkgs) :
           \E order \in Orders(DOMAIN replacements) :
               resolve = Constructed(graph, replacements, order, <<>>)
    /\ previous = PlainResolve(<<>>, "meta_a", "V3")
    /\ ret = NoCall
    /\ cx = NoContext /\ cmd = NoCommand /\ ws = NoWorkspace /\ walk = NoWalk

NextQuery == ExternCrateName

SpecQuery == InitQuery /\ [][NextQuery]_vars

---------------------------------------------------------------------------
(* Lookups on a constructed Resolve, over graphs whose edges differ in     *)
(* kind and visibility and over every replacement table, a replacement of  *)
(* a replacement included.                                                 *)

\* the edge sets drawn: a public dependency, a private one, a public build
\* dependency
LookupEdgeSets ==
    { {[kind |-> "Normal", public |-> TRUE, name |-> None]},
      {[kind |-> "Normal", public |-> FALSE, name |-> None]},
      {[kind |-> "Build", public |-> TRUE, name |-> None]} }

LookupPairs == {<<1, 2>>, <<1, 3>>, <<2, 3>>}

\* [replace] tables of at most MaxRepl entries, no package replaced by itself
LookupReplacements(V) ==
    {r \in PartialMaps(V, V) :
        /\ Cardinality(DOMAIN r) <= MaxRepl
        /\ \A p \in DOMAIN r : r[p] # p}

QueryIsPublicDep ==
    /\ ret = NoCall
    /\ \E pkg \in QueryPkgs, dep \in QueryPkgs :
           ret' = [op |-> "is_public_dep", pkg |-> pkg, dep |-> dep,
                   out |-> IsPublicDep(resolve, pkg, dep)]
    /\ UNCHANGED <<resolve, previous, cx, cmd, ws, walk>>

QueryDependenciesListed ==
    /\ ret = NoCall
    /\ \E from \in QueryPkgs, to \in QueryPkgs :
           ret' = [op |-> "dependencies_listed", from |-> from, to |-> to,
                   out |-> DependenciesListed(resolve, from, to)]
    /\ UNCHANGED <<resolve, previous, cx, cmd, ws, walk>>

\* one call of deps and one of deps_not_replaced for the same package
QueryDeps ==
    /\ ret = NoCall
    /\ \E pkg \in QueryPkgs :
           ret' = [op |-> "deps", pkg |-> pkg, out |-> Deps(resolve, pkg),
                   not_replaced |-> DepsNotReplaced(resolve, pkg)]
    /\ UNCHANGED <<resolve, previous, cx, cmd, ws, walk>>

InitLookup ==
    /\ \E graph \in Graphs(Pkgs, LookupPairs, LookupEdgeSets),
          replacements \in LookupReplacements(Pkgs) :
           \E order \in Orders(DOMAIN replacements) :
               resolve = Constructed(graph, replacements, order, <<>>)
    /\ previous = PlainResolve(<<>>, "meta_a", "V3")
    /\ ret = NoCall
    /\ cx = NoContext /\ cmd = NoCommand /\ ws = NoWorkspace /\ walk = NoWalk

NextLookup == QueryIsPublicDep \/ QueryDependenciesListed \/ QueryDeps

SpecLookup == InitLookup /\ [][NextLookup]_vars

---------------------------------------------------------------------------
(* compiler::artifact::set_env *)

\* char::to_uppercase on the characters of the names drawn below
CharToUppercase(ch) ==
    CASE ch = "a" -> "A" [] ch = "b" -> "B" [] ch = "c" -> "C" [] OTHER -> ch

ToUppercase(s) == [i \in 1..Len(s) |-> CharToUppercase(s[i])]

\* the literal pieces of the three format! calls
FmtCargo == <<"C", "A", "R", "G", "O", "_">>
FmtDir == <<"_", "D", "I", "R", "_">>
FmtFile == <<"_", "F", "I", "L", "E", "_">>
FmtSep == <<"_">>

\* a path is the sequence of its components; Path::parent drops the last
PathParent(path) ==
    IF Len(path) = 0 THEN None ELSE Some(SubSeq(path, 1, Len(path) - 1))

\* target kinds
KindBin == [tag |-> "Bin", crate_types |-> <<>>]
KindExampleBin == [tag |-> "ExampleBin", crate_types |-> <<>>]
KindLib(crate_types) == [tag |-> "Lib", crate_types |-> crate_types]

PanicNotAnArtifact == "BUG: artifacts cannot be of type"

UnitArtifactTypeNameUpper(unit) ==
    LET kind == unit.target.kind IN
    IF kind.tag = "Lib" THEN
        IF kind.crate_types = <<"cdylib">> THEN Ok(<<"C", "D", "Y", "L", "I", "B">>)
        ELSE IF kind.crate_types = <<"staticlib">>
            THEN Ok(<<"S", "T", "A", "T", "I", "C", "L", "I", "B">>)
        ELSE Panic(PanicNotAnArtifact)
    ELSE IF kind.tag = "Bin" THEN Ok(<<"B", "I", "N">>)
    ELSE Panic(PanicNotAnArtifact)

\* HashMap::insert, ProcessBuilder::env: the entry of key k becomes v
MapInsert(map, k, v) ==
    [x \in DOMAIN map \cup {k} |-> IF x = k THEN v ELSE map[x]]

\* cmd.env(&var, path); set.insert((var, path)): st carries the command's
\* environment, the cmd.env calls made so far in order, and the set of the
\* dependency at hand
CmdEnv(st, var, path) ==
    [st EXCEPT !.env = MapInsert(@, var, path),
               !.calls = Append(@, <<var, path>>),
               !.set = @ \cup {<<var, path>>}]

\* unit_dep.dep_name.unwrap_or(unit_dep.unit.pkg.name())
EffectiveDepName(unit_dep) ==
    IF IsSome(unit_dep.dep_name) THEN Unwrap(unit_dep.dep_name)
    ELSE unit_dep.unit.pkg.name

DirVar(type, dep_name_upper) == FmtCargo \o type \o FmtDir \o dep_name_upper

FileVarUpperTarget(type, dep_name_upper, target_name) ==
    FmtCargo \o type \o FmtFile \o dep_name_upper \o FmtSep \o ToUppercase(target_name)

FileVar(type, dep_name_upper, target_name) ==
    FmtCargo \o type \o FmtFile \o dep_name_upper \o FmtSep \o target_name

AliasVar(type, dep_name_upper) == FmtCargo \o type \o FmtFile \o dep_name_upper

HasAliasNormalized(unit_dep) ==
    StrReplace(unit_dep.unit.target.name, "-", "_")
        = StrReplace(EffectiveDepName(unit_dep), "-", "_")

HasAlias(unit_dep) == unit_dep.unit.target.name = EffectiveDepName(unit_dep)

\* the body of the loop over the Normal outputs of one dependency
SetEnvFile(unit_dep, artifact_path, st) ==
    LET type == UnitArtifactTypeNameUpper(unit_dep.unit)
        dep_name_upper == StrReplace(ToUppercase(EffectiveDepName(unit_dep)), "-", "_")
        parent == PathParent(artifact_path)
    IN  IF type.kind = "Panic" THEN [st EXCEPT !.stop = Some(type)]
        ELSE IF ~IsSome(parent)
            THEN [st EXCEPT !.stop = Some(Panic("parent dir for artifacts"))]
        ELSE LET dir == CmdEnv(st, DirVar(type.val, dep_name_upper), Unwrap(parent))
                 file == CmdEnv(dir, FileVar(type.val, dep_name_upper,
                                             unit_dep.unit.target.name),
                                artifact_path)
             IN  IF HasAlias(unit_dep)
                     THEN CmdEnv(file, AliasVar(type.val, dep_name_upper), artifact_path)
                 ELSE file

\* the filter on the outputs of a dependency
IsProjected(file) == file.flavor = "Normal"

\* the loop over the outputs of one dependency, from the i-th on
RECURSIVE SetEnvFiles(_, _, _, _)
SetEnvFiles(unit_dep, files, i, st) ==
    IF i > Len(files) \/ IsSome(st.stop) THEN st
    ELSE IF ~IsProjected(files[i]) THEN SetEnvFiles(unit_dep, files, i + 1, st)
    ELSE SetEnvFiles(unit_dep, files, i + 1, SetEnvFile(unit_dep, files[i].path, st))

IsArtifactDepAnyUnit(unit_dep) == TRUE

\* the filter on the dependencies
IsArtifactDep(unit_dep) == unit_dep.unit.artifact

RetInsertAlways(map, metadata, set) == MapInsert(map, metadata, set)

\* if !set.is_empty() { ret.insert(metadata, set); }
RetInsert(map, metadata, set) ==
    IF set # {} THEN MapInsert(map, metadata, set) ELSE map

\* the loop over the dependencies, from the i-th on: acc carries the
\* command's environment, the cmd.env calls, the map `ret`, and the error
\* or panic that ended the call, if any
RECURSIVE SetEnvDeps(_, _, _, _)
SetEnvDeps(context, dependencies, i, acc) ==
    IF i > Len(dependencies) \/ IsSome(acc.stop) THEN acc
    ELSE LET unit_dep == dependencies[i] IN
        IF ~IsArtifactDep(unit_dep) THEN SetEnvDeps(context, dependencies, i + 1, acc)
        ELSE LET outputs == context.outputs[unit_dep.unit] IN
            IF outputs.kind = "Err" THEN [acc EXCEPT !.stop = Some(outputs)]
            ELSE LET st == SetEnvFiles(unit_dep, outputs.val, 1,
                                       [env |-> acc.env, calls |-> acc.calls,
                                        set |-> {}, stop |-> None])
                 IN  SetEnvDeps(context, dependencies, i + 1,
                                [env |-> st.env, calls |-> st.calls,
                                 ret |-> RetInsert(acc.ret, context.metadata[unit_dep.unit],
                                                   st.set),
                                 stop |-> st.stop])

\* Ok((!ret.is_empty()).then(|| ret))
SetEnvReturn(map) == Ok(IF DOMAIN map # {} THEN Some(map) ELSE None)

\* set_env(cx, dependencies, cmd): the command afterwards, the cmd.env
\* calls it received, and what the call returned or how it ended
SetEnvResult(context, dependencies, command) ==
    LET acc == SetEnvDeps(context, dependencies, 1,
                          [env |-> command.env, calls |-> <<>>, ret |-> <<>>,
                           stop |-> None])
    IN  [cmd |-> [env |-> acc.env],
         calls |-> acc.calls,
         out |-> IF IsSome(acc.stop) THEN Unwrap(acc.stop) ELSE SetEnvReturn(acc.ret)]

SetEnv ==
    /\ ret = NoCall
    /\ LET r == SetEnvResult(cx, cx.dependencies, cmd) IN
           /\ cmd' = r.cmd
           /\ ret' = [op |-> "set_env", before |-> cmd, calls |-> r.calls, out |-> r.out]
    /\ UNCHANGED <<resolve, previous, cx, ws, walk>>

---------------------------------------------------------------------------
(* One set_env call on each list of unit dependencies.  The build         *)
(* identity (Metadata) of a unit is its own.                               *)

NameLetter == <<"a">>
NameUpperB == <<"B">>
NameUpperSuffixed == <<"B", "_", "c">>

Unit(pkg_id, pkg_name, target_name, kind, artifact) ==
    [pkg |-> [id |-> pkg_id, name |-> pkg_name],
     target |-> [name |-> target_name, kind |-> kind],
     artifact |-> artifact]

UnitDep(unit, dep_name) == [unit |-> unit, dep_name |-> dep_name]

\* the dependencies drawn: binaries of a package named a-b, another version
\* of it renamed a_b, the library shapes of a package named c and its
\* binary as an ordinary dependency, and binaries whose name continues the
\* name of their package a
UnitDeps ==
    { UnitDep(Unit(1, NameDashed, NameDashed, KindBin, TRUE), None),
      UnitDep(Unit(1, NameDashed, NameOther, KindBin, TRUE), None),
      UnitDep(Unit(2, NameDashed, NameDashed, KindBin, TRUE), Some(NameUnderscored)),
      UnitDep(Unit(3, NameOther, NameOther, KindLib(<<"cdylib">>), TRUE), None),
      UnitDep(Unit(3, NameOther, NameOther, KindLib(<<"staticlib">>), TRUE),
              Some(NameDashed)),
      UnitDep(Unit(3, NameOther, NameOther, KindLib(<<"cdylib", "staticlib">>), TRUE),
              None),
      UnitDep(Unit(3, NameOther, NameOther, KindExampleBin, TRUE), None),
      UnitDep(Unit(3, NameOther, NameOther, KindLib(<<"lib">>), FALSE), None),
      UnitDep(Unit(3, NameOther, NameOther, KindBin, FALSE), None),
      UnitDep(Unit(4, NameLetter, NameUpperB, KindBin, TRUE), None),
      UnitDep(Unit(4, NameLetter, NameUpperSuffixed, KindBin, TRUE), None) }

\* the lists of at most MaxUnitDeps dependencies: a unit is a dependency
\* under one name
DependencyLists ==
    UNION { { l \in [1..n -> UnitDeps] :
                \A i \in 1..n, j \in 1..n : l[i].unit = l[j].unit => l[i] = l[j] }
            : n \in 0..MaxUnitDeps }

OutputFile(path, flavor) == [path |-> path, flavor |-> flavor]

FileOut == OutputFile(<<"out", "f">>, "Normal")
FileAlt == OutputFile(<<"alt", "g">>, "Normal")
FileDebug == OutputFile(<<"out", "f.dbg">>, "DebugInfo")

\* what cx.outputs(unit) returns for a unit
OutputResults ==
    { Err("outputs", {}), Ok(<<>>), Ok(<<FileOut>>), Ok(<<FileDebug>>),
      Ok(<<FileDebug, FileAlt>>), Ok(<<FileOut, FileAlt>>) }

UnitsOf(dependencies) == { dependencies[i].unit : i \in DOMAIN dependencies }

\* an artifact unit of the build that is a dependency of another unit
OtherUnit == Unit(5, NameOther, NameOther, KindBin, TRUE)

\* the units the build context knows
UnitsKnown(dependencies) == UnitsOf(dependencies) \cup {OtherUnit}

InitEnv ==
    /\ resolve = PlainResolve(<<>>, "meta_a", "V3")
    /\ previous = PlainResolve(<<>>, "meta_a", "V3")
    /\ ret = NoCall
    /\ \E dependencies \in DependencyLists :
           \E outputs \in [UnitsOf(dependencies) -> OutputResults] :
               cx = [dependencies |-> dependencies,
                     outputs |-> [u \in UnitsKnown(dependencies) |->
                                     IF u = OtherUnit THEN Ok(<<FileOut>>)
                                     ELSE outputs[u]],
                     metadata |-> [u \in UnitsKnown(dependencies) |-> u]]
    /\ cmd = NoCommand
    /\ ws = NoWorkspace
    /\ walk = NoWalk

NextEnv == SetEnv

SpecEnv == InitEnv /\ [][NextEnv]_vars

---------------------------------------------------------------------------
(* ops::cargo_output_metadata::build_resolve_graph                         *)

\* A PackageId as the export prints it.  Two notations of one source make
\* PackageIds that are equal (as map keys, by `pkg`) and print differently;
\* the ids of the resolver have the notation of Cargo.lock.
PackageIdOf(pkg, notation) == [pkg |-> pkg, notation |-> notation]

ResolverId(pkg) == PackageIdOf(pkg, "lock")

NormalizeIdUnchanged(package_map, id) == Ok(id)

\* *package_map.get_key_value(&id).unwrap().0
NormalizeId(package_map, id) ==
    IF id.pkg \in DOMAIN package_map THEN Ok(package_map[id.pkg].package_id)
    ELSE Panic("called Option::unwrap() on a None value")

\* Resolve::features
Features(self, pkg) ==
    IF pkg \in DOMAIN self.features THEN self.features[pkg] ELSE <<>>

\* Dependency::name_in_toml
NameInToml(d) == IF IsSome(d.name) THEN Unwrap(d.name) ELSE d.package_name

\* the first filter of the dependencies: the platform
PlatformActivated(workspace, deps) ==
    workspace.host_only \/ \E d \in deps : d.activated

\* the name the filter_map finds for one dependency: Ok(Some(name)),
\* Ok(None) when the dependency is left out, or the panic of the naming;
\* a set, one outcome for each iteration order of the edge set
DepNameOutcomes(self, package_map, pkg_id, dep_id, deps) ==
    IF dep_id.pkg \notin DOMAIN package_map THEN {Ok(None)}
    ELSE IF IsSome(package_map[dep_id.pkg].lib_target) THEN
        { IF out.kind = "Ok" THEN Ok(Some(out.val[1]))
          ELSE IF out.kind = "Err" THEN Ok(None)
          ELSE out
          : out \in ExternCrateNameAndDepName(self, pkg_id.pkg, dep_id.pkg,
                                             Unwrap(package_map[dep_id.pkg].lib_target)) }
    ELSE IF \E d \in deps : d.artifact
        THEN { Ok(Some(StrReplace(NameInToml(d), "-", "_"))) : d \in {e \in deps : e.artifact} }
    ELSE {Ok(None)}

BuildNodeReversed(package_map, self, pkg_id, raw, names) ==
    LET kept == Ascending({ i \in DOMAIN names :
                              names[i].kind = "Ok" /\ IsSome(names[i].val) })
        deps == [k \in DOMAIN kept |->
                    [name |-> Unwrap(names[kept[k]].val),
                     pkg |-> NormalizeId(package_map, ResolverId(raw[kept[k]][1])).val]]
        dumb_deps == [k \in DOMAIN deps |-> deps[Len(deps) + 1 - k].pkg]
        id == NormalizeId(package_map, pkg_id)
    IN  IF \E i \in DOMAIN names : names[i].kind = "Panic"
            THEN Panic("no Dependency listed")
        ELSE IF id.kind = "Panic" THEN id
        ELSE Ok([id |-> id.val, dependencies |-> dumb_deps, deps |-> deps,
                 features |-> Features(self, pkg_id.pkg)])

\* one call of build_resolve_graph_r that builds a node: `raw` is
\* resolve.deps(pkg_id) and names[i] the outcome of the naming for raw[i],
\* for the dependencies that pass the platform filter.  Ok(the node), or the
\* panic that ends the export.
BuildNode(package_map, self, pkg_id, raw, names) ==
    LET kept == Ascending({ i \in DOMAIN names :
                              names[i].kind = "Ok" /\ IsSome(names[i].val) })
        deps == [k \in DOMAIN kept |->
                    [name |-> Unwrap(names[kept[k]].val),
                     pkg |-> NormalizeId(package_map, ResolverId(raw[kept[k]][1])).val]]
        dumb_deps == [k \in DOMAIN deps |-> NormalizeId(package_map, deps[k].pkg).val]
        id == NormalizeId(package_map, pkg_id)
    IN  IF \E i \in DOMAIN names : names[i].kind = "Panic"
            THEN names[CHOOSE i \in DOMAIN names :
                           /\ names[i].kind = "Panic"
                           /\ \A j \in DOMAIN names : names[j].kind = "Panic" => i <= j]
        ELSE IF id.kind = "Panic" THEN id
        ELSE Ok([id |-> id.val, dependencies |-> dumb_deps, deps |-> deps,
                 features |-> Features(self, pkg_id.pkg)])

\* the choices of one naming outcome for each dependency of `raw` that
\* passes the platform filter
NameChoices(workspace, self, pkg_id, raw) ==
    LET passing == { i \in DOMAIN raw : PlatformActivated(workspace, raw[i][2]) }
        outcomes(i) == DepNameOutcomes(self, workspace.package_map, pkg_id,
                                       ResolverId(raw[i][1]), raw[i][2])
    IN  { names \in [passing -> UNION { outcomes(i) : i \in passing }] :
            \A i \in passing : names[i] \in outcomes(i) }

\* build_resolve_graph up to the loop over the members: an empty node_map,
\* and the calls of build_resolve_graph_r still to make, first to last
ExportBegin ==
    /\ walk.pc = "idle"
    /\ walk' = [pc |-> "walking", node_map |-> <<>>, pending |-> ws.members,
                built |-> <<>>]
    /\ UNCHANGED <<resolve, previous, ret, cx, cmd, ws>>

\* the next call of build_resolve_graph_r: it returns at once for a package
\* that has a node; otherwise it builds the node, inserts it and calls
\* itself for the node's dependencies before the calls that were pending
ExportVisit ==
    /\ walk.pc = "walking"
    /\ walk.pending # <<>>
    /\ LET pkg_id == Head(walk.pending)
           raw == Deps(resolve, pkg_id.pkg)
       IN  IF pkg_id.pkg \in DOMAIN walk.node_map
               THEN /\ walk' = [walk EXCEPT !.pending = Tail(@)]
                    /\ UNCHANGED ret
           ELSE \E names \in NameChoices(ws, resolve, pkg_id, raw) :
                    LET node == BuildNode(ws.package_map, resolve, pkg_id, raw, names)
                    IN  IF node.kind = "Panic"
                            THEN /\ walk' = [walk EXCEPT !.pc = "panicked"]
                                 /\ ret' = [op |-> "build_resolve_graph", out |-> node]
                        ELSE /\ walk' = [walk EXCEPT
                                            !.node_map = MapInsert(@, pkg_id.pkg, node.val),
                                            !.pending = node.val.dependencies \o Tail(@),
                                            !.built = Append(@, pkg_id.pkg)]
                             /\ UNCHANGED ret
    /\ UNCHANGED <<resolve, previous, cx, cmd, ws>>

\* actual_packages: the packages of package_map that have a node, in the
\* map's order, serialized
ActualPackages(package_map, node_map) ==
    LET ids == Ascending(DOMAIN package_map \cap DOMAIN node_map)
    IN  [i \in DOMAIN ids |-> [id |-> package_map[ids[i]].package_id]]

\* the nodes of node_map in the map's order
Nodes(node_map) ==
    LET ids == Ascending(DOMAIN node_map)
    IN  [i \in DOMAIN ids |-> node_map[ids[i]]]

\* build_resolve_graph after the loop over the members
ExportEnd ==
    /\ walk.pc = "walking"
    /\ walk.pending = <<>>
    /\ walk' = [walk EXCEPT !.pc = "done"]
    /\ ret' = [op |-> "build_resolve_graph",
               out |-> Ok([packages |-> ActualPackages(ws.package_map, walk.node_map),
                           resolve |-> [nodes |-> Nodes(walk.node_map),
                                        root |-> ws.current]])]
    /\ UNCHANGED <<resolve, previous, cx, cmd, ws>>

---------------------------------------------------------------------------
(* One metadata export of each workspace: graphs with cycles, a package    *)
(* the package map lacks, a package without a library target, package ids  *)
(* in the notation of the lockfile or in another.                          *)

ExportDep(name, artifact, activated) ==
    [kind |-> "Normal", public |-> FALSE, name |-> name, package_name |-> NameDashed,
     artifact |-> artifact, activated |-> activated]

\* the edge sets drawn: a library dependency, an artifact dependency, a
\* dependency of another platform, one dependency under two names
ExportEdgeSets ==
    { {ExportDep(None, FALSE, TRUE)},
      {ExportDep(None, TRUE, TRUE)},
      {ExportDep(None, FALSE, FALSE)},
      {ExportDep(Some(NameOther), FALSE, TRUE), ExportDep(Some(NameUnderscored), FALSE, TRUE)} }

ExportPairs == {<<1, 2>>, <<2, 1>>, <<1, 3>>, <<2, 3>>, <<3, 1>>}

\* [replace] tables with their iteration order: none, one replacement, two
\* originals replaced by one package
ExportReplacements ==
    { <<<<>>, <<>>>>, <<(2 :> 3), <<2>>>>,
      <<(1 :> 3 @@ 2 :> 3), <<1, 2>>>>, <<(1 :> 3 @@ 2 :> 3), <<2, 1>>>> }

Package(pkg, notation, lib) ==
    [package_id |-> PackageIdOf(pkg, notation),
     lib_target |-> IF lib THEN Some([name |-> NameDashed]) ELSE None]

\* the package maps drawn: every package with a library target, package 2
\* without one, package 3 not in the map
PackageMaps(notation) ==
    { [p \in Pkgs |-> Package(p, notation, TRUE)],
      [p \in Pkgs |-> Package(p, notation, p # 2)],
      [p \in {1, 2} |-> Package(p, notation, TRUE)] }

InitExport ==
    /\ \E graph \in Graphs(Pkgs, ExportPairs, ExportEdgeSets),
          r \in ExportReplacements :
           resolve = Constructed(graph, r[1], r[2], <<>>)
    /\ previous = PlainResolve(<<>>, "meta_a", "V3")
    /\ ret = NoCall
    /\ cx = NoContext /\ cmd = NoCommand
    /\ \E notation \in {"lock", "manifest"}, host_only \in BOOLEAN :
           \E package_map \in PackageMaps(notation), members \in {<<1>>, <<1, 2>>} :
               ws = [members |-> [i \in DOMAIN members |->
                                     package_map[members[i]].package_id],
                     current |-> Some(package_map[1].package_id),
                     package_map |-> package_map,
                     host_only |-> host_only]
    /\ walk = NoWalk

NextExport == ExportBegin \/ ExportVisit \/ ExportEnd

SpecExport == InitExport /\ [][NextExport]_vars

---------------------------------------------------------------------------
(* Claims about merge_from, checked under SpecMerge.  After a merge_from   *)
(* call, ret.before is `self` as it was when the call was made and         *)
(* `previous` is the argument.                                             *)

Merged == ret.op = "merge_from"

\* the package ids present in both checksum tables of the last merge_from
CommonIds == DOMAIN ret.before.checksums \cap DOMAIN previous.checksums

Mine(id) == ret.before.checksums[id]
Theirs(id) == previous.checksums[id]

\* C1: merge_from fails whenever some package id is in both checksum tables
\* with previous checksum Some(x) and new checksum Some(y), x # y, whatever
\* the checksums of the other packages are.
C1_DriftFails ==
    (Merged /\ \E id \in CommonIds :
                   IsSome(Theirs(id)) /\ IsSome(Mine(id)) /\ Theirs(id) # Mine(id))
        => ret.out.kind = "Err"

\* a merge_from that failed with a drifted package beside a package whose
\* checksums agree
C1_Witness ==
    /\ Merged
    /\ ret.out.kind = "Err"
    /\ \E id \in CommonIds, other \in CommonIds :
           /\ IsSome(Theirs(id)) /\ IsSome(Mine(id)) /\ Theirs(id) # Mine(id)
           /\ other # id /\ Theirs(other) = Mine(other)

\* C2: merge_from fails whenever some package id is in both checksum tables
\* with previous checksum None and new checksum Some(x).
C2_AppearanceFails ==
    (Merged /\ \E id \in CommonIds : Theirs(id) = None /\ IsSome(Mine(id)))
        => ret.out.kind = "Err"

C2_Witness ==
    /\ Merged
    /\ ret.out.kind = "Err"
    /\ ret.out.msg = ErrNotPreviouslyCalculated
    /\ \E id \in CommonIds : Theirs(id) = None /\ IsSome(Mine(id))

\* C3: merge_from fails whenever some package id is in both checksum tables
\* with previous checksum Some(x) and new checksum None.
C3_DisappearanceFails ==
    (Merged /\ \E id \in CommonIds : IsSome(Theirs(id)) /\ Mine(id) = None)
        => ret.out.kind = "Err"

C3_Witness ==
    /\ Merged
    /\ ret.out.kind = "Err"
    /\ ret.out.msg = ErrCouldNotBeCalculated
    /\ \E id \in CommonIds : IsSome(Theirs(id)) /\ Mine(id) = None

\* C4: merge_from succeeds whenever every package id present in both
\* checksum tables has equal checksums, both None counting as equal.
C4_EqualSucceeds ==
    (Merged /\ \A id \in CommonIds : Theirs(id) = Mine(id))
        => ret.out.kind = "Ok"

\* a successful merge_from of two equal, non-empty checksum tables, one of
\* whose entries is None on both sides
C4_Witness ==
    /\ Merged
    /\ ret.out.kind = "Ok"
    /\ ret.before.checksums = previous.checksums
    /\ \E id \in CommonIds : Theirs(id) = None
    /\ \E id \in CommonIds : IsSome(Theirs(id))

\* C5: a package id in only one of the two checksum tables is never compared:
\* a failing merge_from names a package id that is in both tables and whose
\* checksums differ, and a merge_from of tables without common ids succeeds.
C5_OnlyCommonIdsCompared ==
    Merged =>
        /\ ret.out.kind = "Err" =>
               /\ ret.out.ids[1] \in CommonIds
               /\ Theirs(ret.out.ids[1]) # Mine(ret.out.ids[1])
        /\ CommonIds = {} => ret.out.kind = "Ok"

\* a successful merge_from where the previous table has a checksummed
\* package the new one dropped, and the new table a package of its own
C5_Witness ==
    /\ Merged
    /\ ret.out.kind = "Ok"
    /\ \E id \in DOMAIN previous.checksums \ DOMAIN ret.before.checksums :
           IsSome(Theirs(id))
    /\ \E id \in DOMAIN ret.before.checksums \ DOMAIN previous.checksums :
           IsSome(Mine(id))

\* C6: after a successful merge_from, self.metadata and self.version are
\* previous's, whatever self held before the call.
C6_CarryOver ==
    (Merged /\ ret.out.kind = "Ok")
        => /\ resolve.metadata = previous.metadata
           /\ resolve.version = previous.version

\* a successful merge_from on a Resolve whose metadata and version both
\* differed from previous's
C6_Witness ==
    /\ Merged
    /\ ret.out.kind = "Ok"
    /\ ret.before.metadata # previous.metadata
    /\ ret.before.version # previous.version
    /\ resolve.version = previous.version

---------------------------------------------------------------------------
(* Claims about construction *)

\* C7: in every state of a Resolve's life, public_dependencies has exactly
\* the graph's nodes as keys, and public_dependencies[p] is exactly the set
\* of edge targets q of p such that some Dependency of the edge p->q has
\* kind Normal and is public.
C7_PublicDependenciesDerived ==
    /\ DOMAIN resolve.public_dependencies = DOMAIN resolve.graph
    /\ \A p \in DOMAIN resolve.graph : \A q \in Pkgs :
           q \in resolve.public_dependencies[p]
               <=> /\ q \in DOMAIN resolve.graph[p]
                   /\ \E d \in resolve.graph[p][q] : d.kind = "Normal" /\ d.public

\* a Resolve after register_used_patches, a successful merge_from and
\* set_version, with one public dependency and one edge that has a private
\* Normal and a public Build declaration
C7_Witness ==
    /\ ret.op = "set_version"
    /\ resolve.unused_patches # <<>>
    /\ resolve.metadata = previous.metadata
    /\ resolve.public_dependencies[1] = {3}
    /\ 2 \in DOMAIN resolve.graph[1]
    /\ \E d \in resolve.graph[1][2] : d.kind = "Normal" /\ ~d.public
    /\ \E d \in resolve.graph[1][2] : d.kind = "Build" /\ d.public

\* the packages replaced by the same package as p
SameTarget(p) ==
    {q \in DOMAIN resolve.replacements : resolve.replacements[q] = resolve.replacements[p]}

\* C8 as stated: reverse_replacements[replacements[p]] = p for every key p
\* of replacements, also when two packages are replaced by the same one.
C8_ExactInverse ==
    /\ DOMAIN resolve.reverse_replacements = Range(resolve.replacements)
    /\ \A p \in DOMAIN resolve.replacements :
           resolve.reverse_replacements[resolve.replacements[p]] = p

\* C8 as amended: reverse_replacements has exactly the replacement targets
\* as keys; reverse_replacements[replacements[p]] is a package replaced by
\* replacements[p], and it is p when no other package has that replacement.
C8_InverseUpToSharedTarget ==
    /\ DOMAIN resolve.reverse_replacements = Range(resolve.replacements)
    /\ \A p \in DOMAIN resolve.replacements :
           /\ resolve.reverse_replacements[resolve.replacements[p]] \in SameTarget(p)
           /\ SameTarget(p) = {p}
                  => resolve.reverse_replacements[resolve.replacements[p]] = p

\* a Resolve with two packages replaced by the same package
C8_Witness ==
    \E p \in DOMAIN resolve.replacements, q \in DOMAIN resolve.replacements :
        /\ p # q
        /\ resolve.replacements[p] = resolve.replacements[q]
        /\ resolve.reverse_replacements[resolve.replacements[p]] = q

---------------------------------------------------------------------------
(* Claims about extern_crate_name_and_dep_name, checked under SpecQuery *)

Named == ret.op = "extern_crate_name_and_dep_name"

\* two Dependency values of `deps` with two different explicit names
TwoRenames(deps) ==
    \E d \in deps, e \in deps :
        IsSome(d.name) /\ IsSome(e.name) /\ d.name # e.name

\* ... whose names still differ once '-' is replaced by '_'
TwoRenamesApart(deps) ==
    \E d \in deps, e \in deps :
        /\ IsSome(d.name) /\ IsSome(e.name)
        /\ StrReplace(Unwrap(d.name), "-", "_") # StrReplace(Unwrap(e.name), "-", "_")

IsDifferentNamesError(out, from, to) ==
    out.kind = "Err" /\ out.msg = ErrDifferentNames /\ out.ids = <<from, to>>

\* C9 as stated: if the edge from -> to, from # to, has two Dependency
\* values with two different explicit renames, the call returns the
\* "multiple times with different names" error about from and to.
C9_TwoRenamesFail ==
    (/\ Named
     /\ ret.from # ret.to
     /\ IsSome(GraphEdge(resolve.graph, ret.from, ret.to))
     /\ TwoRenames(Unwrap(GraphEdge(resolve.graph, ret.from, ret.to))))
        => IsDifferentNamesError(ret.out, ret.from, ret.to)

\* C9 as amended: if the edge set dependencies_listed selects for from -> to,
\* from # to, has two Dependency values whose explicit renames differ after
\* '-' is replaced by '_', the call returns that error.
C9_TwoCrateNamesFail ==
    (/\ Named
     /\ ret.from # ret.to
     /\ DependenciesListed(resolve, ret.from, ret.to).kind = "Ok"
     /\ TwoRenamesApart(DependenciesListed(resolve, ret.from, ret.to).val))
        => IsDifferentNamesError(ret.out, ret.from, ret.to)

\* a failed call on an edge declared under two names that differ after
\* normalisation
C9_Witness ==
    /\ Named
    /\ ret.from # ret.to
    /\ IsSome(GraphEdge(resolve.graph, ret.from, ret.to))
    /\ TwoRenamesApart(Unwrap(GraphEdge(resolve.graph, ret.from, ret.to)))
    /\ IsDifferentNamesError(ret.out, ret.from, ret.to)

\* C10: extern_crate_name_and_dep_name(p, p, target) returns the target's
\* crate name and no explicit rename, whatever edges the graph has.
C10_SelfDependency ==
    (Named /\ ret.from = ret.to)
        => ret.out = Ok(<<CrateName(ret.target), None>>)

\* a call for a package with an edge to itself that is declared under two
\* names
C10_Witness ==
    /\ Named
    /\ ret.from = ret.to
    /\ IsSome(GraphEdge(resolve.graph, ret.from, ret.to))
    /\ TwoRenamesApart(Unwrap(GraphEdge(resolve.graph, ret.from, ret.to)))
    /\ ret.target.name = NameDashed
    /\ ret.out.kind = "Ok"

---------------------------------------------------------------------------
(* Claims about set_env, checked under SpecEnv.  After the call, cx holds  *)
(* the dependencies and outputs it was given, ret.calls the cmd.env calls  *)
(* it made in order, ret.out what it returned, cmd the command afterwards. *)

EnvCalled == ret.op = "set_env"
EnvReturned == EnvCalled /\ ret.out.kind = "Ok"

\* the (variable, path) pairs of the cmd.env calls of the last set_env
Assigned == { ret.calls[i] : i \in DOMAIN ret.calls }

\* the paths of the Normal outputs of a unit
NormalPaths(unit) ==
    LET outputs == cx.outputs[unit] IN
    IF outputs.kind = "Ok"
        THEN { outputs.val[j].path :
                 j \in { k \in DOMAIN outputs.val : outputs.val[k].flavor = "Normal" } }
    ELSE {}

\* the artifact dependencies handed to the last set_env
ArtifactDeps ==
    { cx.dependencies[i] :
        i \in { k \in DOMAIN cx.dependencies : cx.dependencies[k].unit.artifact } }

\* the names the naming rule gives: TYPE, NAME
TypeTagOf(unit) ==
    IF unit.target.kind = KindLib(<<"cdylib">>) THEN <<"C", "D", "Y", "L", "I", "B">>
    ELSE IF unit.target.kind = KindLib(<<"staticlib">>)
        THEN <<"S", "T", "A", "T", "I", "C", "L", "I", "B">>
    ELSE <<"B", "I", "N">>

RawNameOf(d) == IF d.dep_name # None THEN d.dep_name[1] ELSE d.unit.pkg.name

UpperNameOf(d) ==
    [i \in 1..Len(RawNameOf(d)) |->
        LET ch == RawNameOf(d)[i] IN
        CASE ch = "-" -> "_" [] ch = "a" -> "A" [] ch = "b" -> "B"
          [] ch = "c" -> "C" [] OTHER -> ch]

DirVarOf(d) ==
    <<"C", "A", "R", "G", "O", "_">> \o TypeTagOf(d.unit)
        \o <<"_", "D", "I", "R", "_">> \o UpperNameOf(d)

FileVarOf(d) ==
    <<"C", "A", "R", "G", "O", "_">> \o TypeTagOf(d.unit)
        \o <<"_", "F", "I", "L", "E", "_">> \o UpperNameOf(d) \o <<"_">>
        \o d.unit.target.name

AliasVarOf(d) ==
    <<"C", "A", "R", "G", "O", "_">> \o TypeTagOf(d.unit)
        \o <<"_", "F", "I", "L", "E", "_">> \o UpperNameOf(d)

\* C11: for every dependency given to a set_env call that returned whose
\* unit is an artifact unit, and every Normal output f of that unit, the
\* call sets CARGO_{TYPE}_DIR_{NAME} to the parent directory of f and
\* CARGO_{TYPE}_FILE_{NAME}_{TARGETNAME} to f: TYPE is CDYLIB, STATICLIB or
\* BIN by the target's kind, NAME the rename if there is one and the
\* package name otherwise, upper-cased with - replaced by _, TARGETNAME the
\* target's name unchanged.  The command's environment holds each of these
\* values afterwards unless the call assigned the same variable another path.
C11_NamingGrammar ==
    EnvReturned =>
        \A d \in ArtifactDeps : \A f \in NormalPaths(d.unit) :
            \A pair \in { <<DirVarOf(d), SubSeq(f, 1, Len(f) - 1)>>, <<FileVarOf(d), f>> } :
                /\ pair \in Assigned
                /\ pair[1] \in DOMAIN cmd.env
                /\ (\A other \in Assigned : other[1] = pair[1] => other = pair)
                       => cmd.env[pair[1]] = pair[2]

\* a set_env that returned after projecting a renamed static library and a
\* binary whose name has a dash
C11_Witness ==
    /\ EnvReturned
    /\ \E d \in ArtifactDeps :
           /\ d.unit.target.kind = KindLib(<<"staticlib">>)
           /\ d.dep_name = Some(NameDashed)
           /\ NormalPaths(d.unit) # {}
    /\ \E d \in ArtifactDeps :
           /\ d.unit.target.kind = KindBin
           /\ d.unit.target.name = NameDashed
           /\ d.dep_name = None
           /\ NormalPaths(d.unit) # {}

\* the returned record's set for a dependency; empty when the record has no
\* entry for it
RecordOf(d) ==
    IF ret.out.val = None THEN {}
    ELSE IF cx.metadata[d.unit] \in DOMAIN Unwrap(ret.out.val)
        THEN Unwrap(ret.out.val)[cx.metadata[d.unit]]
    ELSE {}

\* C12: for an artifact dependency with a Normal output f, set_env sets the
\* un-suffixed CARGO_{TYPE}_FILE_{NAME} for that dependency if and only if
\* the target's name equals the effective dependency name as written,
\* before normalization, and then sets it to f: of two binaries of one
\* dependency only the one named as the dependency gets the alias, and a
\* renamed dependency whose binary keeps the package name gets none.
C12_AliasIffSameName ==
    EnvReturned =>
        \A d \in ArtifactDeps :
            /\ \A f \in NormalPaths(d.unit) :
                   <<AliasVarOf(d), f>> \in RecordOf(d)
                       <=> d.unit.target.name = RawNameOf(d)
            /\ \A pair \in RecordOf(d) :
                   pair[1] = AliasVarOf(d) =>
                       /\ d.unit.target.name = RawNameOf(d)
                       /\ pair[2] \in NormalPaths(d.unit)

\* a set_env that projected the two binaries of one package, of which one
\* is named as the package
C12_Witness ==
    /\ EnvReturned
    /\ \E d \in ArtifactDeps, e \in ArtifactDeps :
           /\ d.unit.pkg = e.unit.pkg
           /\ d.dep_name = None /\ e.dep_name = None
           /\ d.unit.target.name = d.unit.pkg.name
           /\ e.unit.target.name # e.unit.pkg.name
           /\ NormalPaths(d.unit) # {} /\ NormalPaths(e.unit) # {}
           /\ \E pair \in RecordOf(d) : pair[1] = AliasVarOf(d)

\* the (variable, path) pairs of the returned record, over all its entries
Recorded ==
    IF ret.out.val = None THEN {}
    ELSE UNION { Unwrap(ret.out.val)[m] : m \in DOMAIN Unwrap(ret.out.val) }

\* C13: within one set_env call no variable name is assigned two different
\* paths, whatever the dependencies and outputs are, so that the command's
\* environment after a call that returned agrees with every (name, path)
\* pair of the returned record.
C13_NoConflictingAssignment ==
    /\ EnvCalled =>
           \A p \in Assigned, q \in Assigned : p[1] = q[1] => p[2] = q[2]
    /\ EnvReturned =>
           \A pair \in Recorded :
               /\ pair[1] \in DOMAIN cmd.env
               /\ cmd.env[pair[1]] = pair[2]

\* the units of the three shapes that have a TYPE
HasTypeTag(unit) ==
    unit.target.kind \in {KindBin, KindLib(<<"cdylib">>), KindLib(<<"staticlib">>)}

\* the (variable, path) pairs the naming rule gives a dependency for its
\* output f
PairsOf(d, f) ==
    { <<DirVarOf(d), SubSeq(f, 1, Len(f) - 1)>>, <<FileVarOf(d), f>>,
      <<AliasVarOf(d), f>> }

\* C14: every variable a set_env call assigns, whether it returns or not,
\* is the DIR, FILE or alias variable of a Normal output of a dependency in
\* the given list whose unit is an artifact unit; dependencies that are not
\* artifact units, outputs of another flavor and artifact units that are
\* dependencies of other units contribute nothing.
C14_OnlyNormalOutputsOfArtifactDeps ==
    EnvCalled =>
        \A pair \in Assigned :
            /\ \E d \in ArtifactDeps :
                   /\ HasTypeTag(d.unit)
                   /\ \E f \in NormalPaths(d.unit) : pair \in PairsOf(d, f)
            /\ \A f \in NormalPaths(OtherUnit) :
                   pair \notin PairsOf(UnitDep(OtherUnit, None), f)

\* a set_env that assigned variables, given a binary that is not an
\* artifact unit with a Normal output and an artifact unit with a debug
\* file beside its Normal output
C14_Witness ==
    /\ EnvCalled
    /\ Assigned # {}
    /\ \E i \in DOMAIN cx.dependencies :
           /\ ~cx.dependencies[i].unit.artifact
           /\ cx.dependencies[i].unit.target.kind = KindBin
           /\ NormalPaths(cx.dependencies[i].unit) # {}
    /\ \E d \in ArtifactDeps : cx.outputs[d.unit] = Ok(<<FileDebug, FileAlt>>)
    /\ NormalPaths(OtherUnit) # {}

\* the (variable, path) pairs the naming rule gives a dependency, over its
\* Normal outputs
ExpectedPairs(d) ==
    UNION { { <<DirVarOf(d), SubSeq(f, 1, Len(f) - 1)>>, <<FileVarOf(d), f>> }
                \cup (IF d.unit.target.name = RawNameOf(d)
                          THEN { <<AliasVarOf(d), f>> } ELSE {})
            : f \in NormalPaths(d.unit) }

\* the artifact dependencies of the last set_env that have a Normal output
ProjectedDeps == { d \in ArtifactDeps : NormalPaths(d.unit) # {} }

\* C15: the record a set_env call returns maps the Metadata of a dependency
\* to exactly the set of (variable, path) pairs assigned for that
\* dependency; a dependency for which no variable was assigned has no entry
\* (never an empty set), and when no dependency produced a variable the
\* record is None, not an empty map.
C15_ReturnedRecord ==
    EnvReturned =>
        IF ProjectedDeps = {} THEN ret.out.val = None
        ELSE /\ ret.out.val # None
             /\ DOMAIN Unwrap(ret.out.val)
                    = { cx.metadata[d.unit] : d \in ProjectedDeps }
             /\ \A d \in ProjectedDeps :
                    Unwrap(ret.out.val)[cx.metadata[d.unit]] = ExpectedPairs(d)

\* a set_env that returned a record, given an artifact dependency with a
\* Normal output and an artifact dependency without one
C15_Witness ==
    /\ EnvReturned
    /\ ret.out.val # None
    /\ ProjectedDeps # {}
    /\ ArtifactDeps \ ProjectedDeps # {}

---------------------------------------------------------------------------
(* Claims about the lookups, checked under SpecLookup *)

\* C18: is_public_dep(pkg, dep) panics if and only if pkg is not a vertex
\* of the graph; for a vertex pkg it returns true exactly when dep is in
\* public_dependencies[pkg], and false, without a panic, for a dep the
\* graph does not know.
C18_IsPublicDep ==
    ret.op = "is_public_dep" =>
        /\ ret.out.kind = "Panic" <=> ret.pkg \notin DOMAIN resolve.graph
        /\ ret.pkg \in DOMAIN resolve.graph =>
               /\ ret.out.kind = "Ok"
               /\ ret.out.val <=> ret.dep \in resolve.public_dependencies[ret.pkg]
               /\ ret.dep \notin DOMAIN resolve.graph => ret.out.val = FALSE

\* an is_public_dep call about a package no graph holds that panicked, on a
\* Resolve that has a public dependency
C18_Witness ==
    /\ ret.op = "is_public_dep"
    /\ ret.pkg \notin DOMAIN resolve.graph
    /\ ret.out.kind = "Panic"
    /\ \E p \in DOMAIN resolve.public_dependencies :
           resolve.public_dependencies[p] # {}

\* the originals replaced by `to` to which `from` has an edge
OriginalsListed(from, to) ==
    { o \in DOMAIN resolve.replacements :
        /\ resolve.replacements[o] = to
        /\ from \in DOMAIN resolve.graph
        /\ o \in DOMAIN resolve.graph[from] }

HasDirectEdge(from, to) ==
    from \in DOMAIN resolve.graph /\ to \in DOMAIN resolve.graph[from]

\* C19 as stated: if `to` is the target of a replacement of an original o
\* and the graph has the edge from->o, dependencies_listed(from, to)
\* returns the edge set of from->o, also when the edge from->to exists;
\* otherwise it returns the edge set of from->to; if neither edge exists it
\* panics.
C19_EveryOriginalListed ==
    ret.op = "dependencies_listed" =>
        IF OriginalsListed(ret.from, ret.to) # {}
            THEN \A o \in OriginalsListed(ret.from, ret.to) :
                     ret.out = Ok(resolve.graph[ret.from][o])
        ELSE IF HasDirectEdge(ret.from, ret.to)
            THEN ret.out = Ok(resolve.graph[ret.from][ret.to])
        ELSE ret.out.kind = "Panic"

\* C19: if `to` is the target of the replacement of o, the original that
\* reverse_replacements keeps for `to` (the only one unless two originals
\* share the target), and the graph has the edge from->o,
\* dependencies_listed(from, to) returns the edge set of from->o, also when
\* the edge from->to exists; otherwise it returns the edge set of from->to;
\* if neither edge exists it panics.  An original that shares its target
\* with the kept one is not looked at.
C19_KeptOriginalListed ==
    ret.op = "dependencies_listed" =>
        LET originals == { o \in DOMAIN resolve.replacements :
                             resolve.replacements[o] = ret.to }
            kept == { o \in originals : resolve.reverse_replacements[ret.to] = o }
            listed == kept \cap OriginalsListed(ret.from, ret.to)
        IN  /\ Cardinality(originals) = 1 => kept = originals
            /\ originals # {} => Cardinality(kept) = 1
            /\ IF listed # {}
                   THEN \A o \in listed : ret.out = Ok(resolve.graph[ret.from][o])
               ELSE IF HasDirectEdge(ret.from, ret.to)
                   THEN ret.out = Ok(resolve.graph[ret.from][ret.to])
               ELSE ret.out.kind = "Panic"

\* a dependencies_listed call that returned the edge set of the original
\* although the direct edge exists and carries another set
C19_Witness ==
    /\ ret.op = "dependencies_listed"
    /\ HasDirectEdge(ret.from, ret.to)
    /\ \E o \in OriginalsListed(ret.from, ret.to) :
           /\ ret.out = Ok(resolve.graph[ret.from][o])
           /\ resolve.graph[ret.from][o] # resolve.graph[ret.from][ret.to]

\* C20: deps(pkg) yields one item per outgoing edge of pkg, in the order
\* and with the edge sets of deps_not_replaced(pkg), each neighbour id
\* replaced by replacements[id] when there is such an entry and unchanged
\* otherwise; the substitution is applied once, not to its own result, and
\* not to pkg.
C20_DepsSubstituteOnce ==
    ret.op = "deps" =>
        LET children == IF ret.pkg \in DOMAIN resolve.graph
                            THEN DOMAIN resolve.graph[ret.pkg] ELSE {}
        IN  /\ Len(ret.out) = Cardinality(children)
            /\ Len(ret.not_replaced) = Len(ret.out)
            /\ { ret.not_replaced[i][1] : i \in DOMAIN ret.not_replaced } = children
            /\ \A i \in DOMAIN ret.out :
                   LET id == ret.not_replaced[i][1] IN
                   /\ ret.not_replaced[i][2] = resolve.graph[ret.pkg][id]
                   /\ ret.out[i][2] = ret.not_replaced[i][2]
                   /\ ret.out[i][1] = IF id \in DOMAIN resolve.replacements
                                          THEN resolve.replacements[id] ELSE id

\* a deps call on a replaced package with two edges, one to a neighbour
\* whose replacement is replaced in turn
C20_Witness ==
    /\ ret.op = "deps"
    /\ ret.pkg \in DOMAIN resolve.replacements
    /\ Len(ret.out) = 2
    /\ \E i \in DOMAIN ret.out :
           /\ ret.out[i][1] # ret.not_replaced[i][1]
           /\ ret.out[i][1] \in DOMAIN resolve.replacements

---------------------------------------------------------------------------
(* Claims about the metadata export, checked under SpecExport *)

ExportReturned == ret.op = "build_resolve_graph" /\ ret.out.kind = "Ok"

ExportedPackages == ret.out.val.packages
ExportedNodes == ret.out.val.resolve.nodes

\* C17: in a metadata export that returned, the set of package ids in
\* `packages` equals the set of node ids in `resolve.nodes`: every node has
\* a package entry with the same id, which is the id the package map holds,
\* and every exported package has exactly one node.
C17_PackagesMatchNodes ==
    ExportReturned =>
        /\ { ExportedPackages[i].id : i \in DOMAIN ExportedPackages }
               = { ExportedNodes[j].id : j \in DOMAIN ExportedNodes }
        /\ \A j \in DOMAIN ExportedNodes :
               \E p \in DOMAIN ws.package_map :
                   ExportedNodes[j].id = ws.package_map[p].package_id
        /\ \A i \in DOMAIN ExportedPackages :
               Cardinality({ j \in DOMAIN ExportedNodes :
                               ExportedNodes[j].id = ExportedPackages[i].id }) = 1
        /\ \A i \in DOMAIN ExportedPackages, k \in DOMAIN ExportedPackages :
               ExportedPackages[i].id = ExportedPackages[k].id => i = k

\* an export that returned two nodes or more, one reached through a
\* replacement, with package ids in another notation than the resolver's
\* and a package of the package map that no member reaches
C17_Witness ==
    /\ ExportReturned
    /\ Len(ExportedNodes) >= 2
    /\ \A j \in DOMAIN ExportedNodes : ExportedNodes[j].id.notation = "manifest"
    /\ resolve.replacements # <<>>
    /\ \E j \in DOMAIN ExportedNodes :
           ExportedNodes[j].id.pkg \in Range(resolve.replacements)
    /\ Len(ExportedPackages) < Cardinality(DOMAIN ws.package_map)

---------------------------------------------------------------------------
(* Claims about what the operations on a Resolve leave alone, under Spec  *)

\* the fields no operation after construction writes
FixedFields(r) ==
    <<r.graph, r.replacements, r.reverse_replacements, r.features,
      r.checksums, r.public_dependencies, r.summaries>>

\* C21: no step of a Resolve's life changes graph, replacements,
\* reverse_replacements, features, checksums, public_dependencies or
\* summaries; a set_version step changes at most version, a
\* register_used_patches step at most unused_patches, and a merge_from
\* step at most metadata and version.
C21_NarrowWrites ==
    [][/\ FixedFields(resolve') = FixedFields(resolve)
       /\ ret'.op = "set_version"
              => resolve' = [resolve EXCEPT !.version = resolve'.version]
       /\ ret'.op = "register_used_patches"
              => resolve' = [resolve EXCEPT !.unused_patches = resolve'.unused_patches]
       /\ ret'.op = "merge_from"
              => resolve' = [resolve EXCEPT !.metadata = resolve'.metadata,
                                            !.version = resolve'.version]]_vars

\* a Resolve with a graph edge and a replacement, after a patch was
\* registered as unused and a merge_from replaced its metadata and version
C21_Witness ==
    /\ ret.op = "merge_from"
    /\ ret.out.kind = "Ok"
    /\ resolve.metadata # ret.before.metadata
    /\ resolve.version # ret.before.version
    /\ resolve.unused_patches # <<>>
    /\ DOMAIN resolve.replacements # {}
    /\ \E p \in DOMAIN resolve.graph : DOMAIN resolve.graph[p] # {}

---------------------------------------------------------------------------
(* More claims about extern_crate_name_and_dep_name, under SpecQuery      *)

\* a call for two different packages whose edge set dependencies_listed
\* finds
NamedEdge ==
    /\ Named
    /\ ret.from # ret.to
    /\ DependenciesListed(resolve, ret.from, ret.to).kind = "Ok"

ListedEdges == DependenciesListed(resolve, ret.from, ret.to).val

Renames(deps) == {d.name : d \in {e \in deps : IsSome(e.name)}}

\* the crate names the edges of `deps` ask for: each rename with '-'
\* replaced by '_', and the target's crate name if an edge has no rename
AskedNames(deps, target) ==
    {StrReplace(Unwrap(n), "-", "_") : n \in Renames(deps)}
        \cup (IF \E d \in deps : ~IsSome(d.name)
              THEN {StrReplace(target.name, "-", "_")} ELSE {})

\* C22 as stated: for from # to the call fails exactly when the edge set
\* has more than one distinct explicit rename.
C22_FailsIffTwoRenames ==
    NamedEdge =>
        /\ ret.out.kind \in {"Ok", "Err"}
        /\ ret.out.kind = "Err" <=> Cardinality(Renames(ListedEdges)) > 1

\* C22 as amended: for from # to the call fails, with the "multiple times
\* with different names" error, exactly when the edges ask for more than
\* one crate name, a rename counting with '-' replaced by '_' and an edge
\* without rename counting as the target's crate name.
C22_FailsIffNamesDiffer ==
    NamedEdge =>
        /\ ret.out.kind \in {"Ok", "Err"}
        /\ ret.out.kind = "Err" => IsDifferentNamesError(ret.out, ret.from, ret.to)
        /\ ret.out.kind = "Err"
               <=> Cardinality(AskedNames(ListedEdges, ret.target)) > 1

\* a successful call on an edge set with the two renames a-b and a_b
C22_Witness ==
    /\ NamedEdge
    /\ Renames(ListedEdges) = {Some(NameDashed), Some(NameUnderscored)}
    /\ ret.out.kind = "Ok"

\* two edges of `deps` in one dependency category, one without rename and
\* one whose rename satisfies Differs(rename, crate name of the target)
RenamedBesideUnrenamed(deps, target, Differs(_, _)) ==
    \E d \in deps, e \in deps :
        /\ d.kind = e.kind
        /\ IsSome(d.name) /\ ~IsSome(e.name)
        /\ Differs(Unwrap(d.name), StrReplace(target.name, "-", "_"))

\* every edge of `deps` is declared under one name, in two categories
OneNameTwoCategories(deps) ==
    /\ \A d \in deps, e \in deps : d.name = e.name
    /\ \E d \in deps, e \in deps : d.kind # e.kind

\* C23 as stated: an edge set with, in one category, an edge whose rename
\* is not the target's crate name and an edge without rename fails with
\* the "multiple times with different names" error; one name declared in
\* two categories succeeds.
C23_RenameBesideNoneFails ==
    NamedEdge =>
        /\ RenamedBesideUnrenamed(ListedEdges, ret.target, LAMBDA n, c : n # c)
               => IsDifferentNamesError(ret.out, ret.from, ret.to)
        /\ OneNameTwoCategories(ListedEdges) => ret.out.kind = "Ok"

\* C23 as amended: the same, for a rename that is not the target's crate
\* name once its '-' are replaced by '_'.
C23_OtherCrateBesideNoneFails ==
    NamedEdge =>
        /\ RenamedBesideUnrenamed(ListedEdges, ret.target,
                                  LAMBDA n, c : StrReplace(n, "-", "_") # c)
               => IsDifferentNamesError(ret.out, ret.from, ret.to)
        /\ OneNameTwoCategories(ListedEdges) => ret.out.kind = "Ok"

\* a failed call on the normal dependencies `c` (a rename) and the
\* unrenamed one of a package whose crate is a_b
C23_Witness ==
    /\ NamedEdge
    /\ ret.target.name = NameDashed
    /\ ListedEdges = {[kind |-> "Normal", public |-> FALSE, name |-> Some(NameOther)],
                      [kind |-> "Normal", public |-> FALSE, name |-> None]}
    /\ IsDifferentNamesError(ret.out, ret.from, ret.to)

\* C24: when the call succeeds for from # to, every iteration order of the
\* edge set gives the same result; its identifier is the target's crate
\* name if no edge has a rename and otherwise the rename with '-'
\* replaced by '_'; its second component is the rename as written, or
\* None if no edge has one.
C24_OrderIndependent ==
    (NamedEdge /\ ret.out.kind = "Ok") =>
        /\ \A other \in ExternCrateNameAndDepName(resolve, ret.from, ret.to, ret.target) :
               other = ret.out
        /\ IF Renames(ListedEdges) = {}
           THEN ret.out.val = <<StrReplace(ret.target.name, "-", "_"), None>>
           ELSE /\ Renames(ListedEdges) = {ret.out.val[2]}
                /\ ret.out.val[1] = StrReplace(Unwrap(ret.out.val[2]), "-", "_")

---------------------------------------------------------------------------
(* More claims about merge_from and set_version, under SpecMerge          *)

\* C25: when merge_from(previous) returns an error, self is what it was
\* before the call: it carries neither the metadata nor the version of
\* previous unless it already did.
C25_FailedMergeWritesNothing ==
    (Merged /\ ret.out.kind = "Err") => resolve = ret.before

\* a failed merge_from with a previous whose metadata and version both
\* differ from self's
C25_Witness ==
    /\ Merged
    /\ ret.out.kind = "Err"
    /\ previous.metadata # ret.before.metadata
    /\ previous.version # ret.before.version
    /\ resolve.metadata = ret.before.metadata

---------------------------------------------------------------------------
(* A further claim about deps and dependencies_listed, under SpecLookup   *)

\* C26: for every (id, edges) that deps(from) yields with id # from,
\* dependencies_listed(from, id) does not panic and returns `edges`,
\* whatever the replacement table.
C26_DepsEdgesAreListed ==
    ret.op = "deps" =>
        \A i \in DOMAIN ret.out :
            ret.out[i][1] # ret.pkg
                => DependenciesListed(resolve, ret.pkg, ret.out[i][1]) = Ok(ret.out[i][2])

---------------------------------------------------------------------------
(* A claim about register_used_patches, under Spec                        *)

IsVertex(id) == id \in DOMAIN resolve.graph

\* C27: a register_used_patches(patches) step appends to unused_patches,
\* in input order, exactly the ids of `patches` that are not vertices of
\* the graph and keeps the earlier entries in place; and a Resolve
\* constructed without a vertex in unused_patches never has one there.
C27_OnlyNonVerticesAppended ==
    /\ [][ret'.op = "register_used_patches"
              => resolve'.unused_patches =
                     resolve.unused_patches
                         \o SelectSeq(ret'.patches, LAMBDA id : ~IsVertex(id))]_vars
    /\ [](\A i \in DOMAIN resolve.unused_patches : ~IsVertex(resolve.unused_patches[i]))

\* a call with a vertex and a non-vertex on a Resolve that already had an
\* unused patch: the non-vertex is behind the earlier entry
C27_Witness ==
    /\ ret.op = "register_used_patches"
    /\ Len(ret.patches) = 2
    /\ IsVertex(ret.patches[1]) /\ ~IsVertex(ret.patches[2])
    /\ Len(resolve.unused_patches) = 2
    /\ resolve.unused_patches[2] = ret.patches[2]
    /\ resolve.unused_patches[1] # ret.patches[2]

\* C28: two Resolves are equal exactly when they agree on every field but
\* version; so a set_version leaves self equal to what it was and equal
\* to previous exactly if it was before, and a merge_from with a previous
\* of the same metadata leaves self equal to what it was.
C28_EqualityIgnoresVersion ==
    /\ ResolveEq(resolve, previous)
           <=> [resolve EXCEPT !.version = previous.version] = previous
    /\ ret.op = "set_version"
           => /\ ResolveEq(resolve, ret.before)
              /\ ResolveEq(resolve, previous) <=> ResolveEq(ret.before, previous)
    /\ (Merged /\ previous.metadata = ret.before.metadata)
           => ResolveEq(resolve, ret.before)

\* a Resolve that equals previous although set_version gave it another
\* version than it had and than previous has
C28_Witness ==
    /\ ret.op = "set_version"
    /\ resolve.version # ret.before.version
    /\ resolve.version # previous.version
    /\ ResolveEq(resolve, previous)

---------------------------------------------------------------------------
(* A claim about the walk of the metadata export, under SpecExport        *)

\* the packages reached from `frontier` along the `dependencies` of the
\* nodes of node_map
RECURSIVE ReachedFrom(_, _, _)
ReachedFrom(node_map, frontier, seen) ==
    IF frontier \subseteq seen THEN seen
    ELSE LET new == frontier \ seen
             next == UNION { { node_map[p].dependencies[k].pkg :
                                 k \in DOMAIN node_map[p].dependencies } :
                             p \in new \cap DOMAIN node_map }
         IN  ReachedFrom(node_map, next, seen \cup new)

MemberPkgs == { ws.members[i].pkg : i \in DOMAIN ws.members }

\* the next call of build_resolve_graph_r is for a package without node
CallBuildsNode ==
    /\ walk.pc = "walking"
    /\ walk.pending # <<>>
    /\ Head(walk.pending).pkg \notin DOMAIN walk.node_map

\* the packages that have no node yet
Unbuilt(w) == Pkgs \ DOMAIN w.node_map

\* C29: the walk of the export ends, on graphs with cycles too: a call
\* that builds a node has an outcome, and each step either ends the walk,
\* or builds a node for a package that had none, or leaves fewer calls
\* pending with the same nodes.  It builds a node for a package at most once; an export
\* that returned has exactly one node for each package reached from a
\* workspace member along exported dependencies; every id in a node's
\* `dependencies` is the id of a node, and `dependencies` lists the
\* packages of `deps` in their order.
C29_WalkEndsWithReachableNodes ==
    /\ [](CallBuildsNode =>
              NameChoices(ws, resolve, Head(walk.pending),
                          Deps(resolve, Head(walk.pending).pkg)) # {})
    /\ [][walk.pc = "walking" =>
              \/ walk'.pc \in {"done", "panicked"}
              \/ /\ Unbuilt(walk') \subseteq Unbuilt(walk)
                 /\ Unbuilt(walk') # Unbuilt(walk)
              \/ /\ Unbuilt(walk') = Unbuilt(walk)
                 /\ Len(walk'.pending) < Len(walk.pending)]_vars
    /\ [](\A i \in DOMAIN walk.built, j \in DOMAIN walk.built :
              walk.built[i] = walk.built[j] => i = j)
    /\ [](ExportReturned =>
              /\ { ExportedNodes[j].id.pkg : j \in DOMAIN ExportedNodes }
                     = ReachedFrom(walk.node_map, MemberPkgs, {})
              /\ \A i \in DOMAIN ExportedNodes, j \in DOMAIN ExportedNodes :
                     ExportedNodes[i].id = ExportedNodes[j].id => i = j
              /\ \A j \in DOMAIN ExportedNodes :
                     /\ \A k \in DOMAIN ExportedNodes[j].dependencies :
                            \E n \in DOMAIN ExportedNodes :
                                ExportedNodes[n].id = ExportedNodes[j].dependencies[k]
                     /\ ExportedNodes[j].dependencies
                            = [k \in DOMAIN ExportedNodes[j].deps |->
                                   ExportedNodes[j].deps[k].pkg])

\* an export that returned, of a workspace whose two packages depend on
\* each other: the second call for package 1 found its node
C29_Witness ==
    /\ ExportReturned
    /\ walk.pc = "done"
    /\ IsSome(GraphEdge(resolve.graph, 1, 2))
    /\ IsSome(GraphEdge(resolve.graph, 2, 1))
    /\ walk.built = <<1, 2>>
    /\ \E j \in DOMAIN ExportedNodes :
           /\ ExportedNodes[j].id.pkg = 2
           /\ Len(ExportedNodes[j].dependencies) = 1
           /\ ExportedNodes[j].dependencies[1].pkg = 1

---------------------------------------------------------------------------
(* A claim about a failed set_env, under SpecEnv                          *)

\* C30: when set_env returns an error, it has made no assignment on the
\* command: the command's environment is what it was before the call,
\* also when dependencies before the failing one had Normal outputs.
C30_ErrorAssignsNothing ==
    (EnvCalled /\ ret.out.kind = "Err")
        => /\ ret.calls = <<>>
           /\ cmd = ret.before

===========================================================================
